---- MODULE Spec2Model ----
(***************************************************************************)
(* Model of carbonplan_forests/prepare.py: the spectral scrambler          *)
(* (scramble_2d, scramble_3d), the fire feature assembler (fire) and the   *)
(* tabular feature builders (drought, insects).                            *)
(*                                                                         *)
(* Numbers are exact rationals with the float specials NaN, +inf, -inf.    *)
(* Grids are functions over 0-based indices, as numpy arrays are; flat     *)
(* vectors and tables are sequences.  Phases are counted in quarter turns  *)
(* (q stands for the angle q*pi/2), and grid extents are 1 or 2, so that   *)
(* every Fourier coefficient is an exact integer.                          *)
(***************************************************************************)
EXTENDS Integers, Sequences, FiniteSets, TLC

VARIABLES pc, fn, rng,
          img, phase, fnew,
          cfg, inp, climate, shape, x, f, f2, f3, ret,
          df, tab

vars == <<pc, fn, rng, img, phase, fnew,
          cfg, inp, climate, shape, x, f, f2, f3, ret, df, tab>>

scrVars == <<img, phase, fnew>>
fireVars == <<cfg, inp, climate, shape, x, f, f2, f3, ret>>
tabVars == <<df, tab>>

(***************************************************************************)
(* Bounds                                                                  *)
(***************************************************************************)
MaxNt == 2
MaxRows == 2
MaxSeed == 1

(***************************************************************************)
(* Floating-point values                                                   *)
(***************************************************************************)
Abs(a) == IF a < 0 THEN -a ELSE a

RECURSIVE GCD(_, _)
GCD(a, b) == IF b = 0 THEN a ELSE GCD(b, a % b)

NaN == [k |-> "nan", n |-> 0, d |-> 1]
PInf == [k |-> "inf", n |-> 1, d |-> 1]
NInf == [k |-> "inf", n |-> -1, d |-> 1]

\* the rational n/d, d > 0, in lowest terms
Q(n, d) ==
    LET g == GCD(Abs(n), d)
    IN  [k |-> "num", n |-> n \div g, d |-> d \div g]

Num(n) == Q(n, 1)

isnan(v) == v.k = "nan"

Sign(a) == IF a < 0 THEN -1 ELSE IF a > 0 THEN 1 ELSE 0

\* IEEE arithmetic on the values above
Sub(a, b) ==
    IF isnan(a) \/ isnan(b) THEN NaN
    ELSE IF a.k = "inf" /\ b.k = "inf" THEN (IF a.n = b.n THEN NaN ELSE a)
    ELSE IF a.k = "inf" THEN a
    ELSE IF b.k = "inf" THEN (IF b.n > 0 THEN NInf ELSE PInf)
    ELSE Q(a.n * b.d - b.n * a.d, a.d * b.d)

Add(a, b) ==
    IF isnan(a) \/ isnan(b) THEN NaN
    ELSE IF a.k = "inf" /\ b.k = "inf" THEN (IF a.n = b.n THEN a ELSE NaN)
    ELSE IF a.k = "inf" THEN a
    ELSE IF b.k = "inf" THEN b
    ELSE Q(a.n * b.d + b.n * a.d, a.d * b.d)

Mul(a, b) ==
    IF isnan(a) \/ isnan(b) THEN NaN
    ELSE IF a.k = "inf" \/ b.k = "inf"
         THEN (IF a.n = 0 \/ b.n = 0 THEN NaN
               ELSE IF Sign(a.n) * Sign(b.n) > 0 THEN PInf ELSE NInf)
    ELSE Q(a.n * b.n, a.d * b.d)

Div(a, b) ==
    IF isnan(a) \/ isnan(b) THEN NaN
    ELSE IF a.k = "inf" /\ b.k = "inf" THEN NaN
    ELSE IF a.k = "inf" THEN (IF Sign(a.n) * Sign(b.n) >= 0 THEN PInf ELSE NInf)
    ELSE IF b.k = "inf" THEN Num(0)
    ELSE IF b.n = 0 THEN (IF a.n = 0 THEN NaN ELSE IF a.n > 0 THEN PInf ELSE NInf)
    ELSE Q(a.n * b.d * Sign(b.n), a.d * Abs(b.n))

\* a < b; every comparison with NaN is false
LT(a, b) ==
    IF isnan(a) \/ isnan(b) THEN FALSE
    ELSE IF a.k = "inf" THEN a.n < 0 /\ ~(b.k = "inf" /\ b.n < 0)
    ELSE IF b.k = "inf" THEN b.n > 0
    ELSE a.n * b.d < b.n * a.d

GT(a, b) == LT(b, a)

\* a materialised array: the same function, held as a table of its values
ndarray(g) == IF g = g THEN g ELSE g

(***************************************************************************)
(* Complex integers <<re, im>> and the discrete Fourier transform          *)
(***************************************************************************)
Mod4(q) == ((q % 4) + 4) % 4

\* exp(1j * q * pi / 2)
CExp(q) ==
    CASE Mod4(q) = 0 -> <<1, 0>>
      [] Mod4(q) = 1 -> <<0, 1>>
      [] Mod4(q) = 2 -> <<-1, 0>>
      [] Mod4(q) = 3 -> <<0, -1>>

CMul(a, b) == <<a[1] * b[1] - a[2] * b[2], a[1] * b[2] + a[2] * b[1]>>

\* |z|, exact whenever it is an integer
CAbs(z) ==
    CHOOSE r \in 0..(Abs(z[1]) + Abs(z[2])) : r * r = z[1] * z[1] + z[2] * z[2]

RECURSIVE SumTo(_, _)
SumTo(g, n) == IF n = 0 THEN 0 ELSE g[n - 1] + SumTo(g, n - 1)

NRows(g) == Cardinality(DOMAIN g)
NCols(g) == Cardinality(DOMAIN g[0])

\* exp(sign * 2*pi*1j * k / n) for n in {1, 2, 4}
Twiddle(n, k, sign) == CExp(sign * (4 \div n) * k)

\* unnormalised 2D transform: sign = -1 is fft2, sign = 1 is N * ifft2
DFT2(g, sign) ==
    LET ny == NRows(g)
        nx == NCols(g)
        term(u, v, yy, xx) ==
            CMul(g[yy][xx], CMul(Twiddle(ny, u * yy, sign), Twiddle(nx, v * xx, sign)))
        part(u, v, c) ==
            SumTo([yy \in 0..(ny - 1) |->
                     SumTo([xx \in 0..(nx - 1) |-> term(u, v, yy, xx)[c]], nx)], ny)
    IN  [u \in 0..(ny - 1) |-> [v \in 0..(nx - 1) |-> <<part(u, v, 1), part(u, v, 2)>>]]

fft2(g) == DFT2(g, -1)

fftshift(g) ==
    LET ny == NRows(g)
        nx == NCols(g)
    IN  [u \in 0..(ny - 1) |-> [v \in 0..(nx - 1) |->
            g[(u + ny - (ny \div 2)) % ny][(v + nx - (nx \div 2)) % nx]]]

ifftshift(g) ==
    LET ny == NRows(g)
        nx == NCols(g)
    IN  [u \in 0..(ny - 1) |-> [v \in 0..(nx - 1) |->
            g[(u + (ny \div 2)) % ny][(v + (nx \div 2)) % nx]]]

\* img with its missing cells set to 0, as complex integers
ZeroFill(g) ==
    [yy \in DOMAIN g |-> [xx \in DOMAIN g[yy] |->
        IF isnan(g[yy][xx]) THEN <<0, 0>> ELSE <<g[yy][xx].n, 0>>]]

(***************************************************************************)
(* The random generator: np.random.rand is a deterministic function of the *)
(* generator state, which every draw advances.                             *)
(***************************************************************************)
RandPhase(r, ny, nx) ==
    [u \in 0..(ny - 1) |-> [v \in 0..(nx - 1) |->
        (r.seed + r.n * (1 + u + 2 * v) + u + v) % 4]]

Advance(r) == [r EXCEPT !.n = @ + 1]

(***************************************************************************)
(* scramble_2d                                                             *)
(***************************************************************************)
\* fnew before the mask is restored: np.real(ifft2(ifftshift(F_mag * exp(1j * phase))))
rephased(g, ph) ==
    LET ny == NRows(g)
        nx == NCols(g)
        F == ndarray(fft2(ZeroFill(g)))
        Fs == fftshift(F)
        F_mag == [u \in DOMAIN Fs |-> [v \in DOMAIN Fs[u] |-> CAbs(Fs[u][v])]]
        Fnew == ndarray([u \in DOMAIN Fs |-> [v \in DOMAIN Fs[u] |->
                    CMul(<<F_mag[u][v], 0>>, CExp(ph[u][v]))]])
        G == DFT2(ndarray(ifftshift(Fnew)), 1)
    IN  [yy \in DOMAIN g |-> [xx \in DOMAIN g[yy] |-> Q(G[yy][xx][1], ny * nx)]]

\* scramble_2d without the final `fnew[nan_inds] = np.NaN`
scramble_2d_unmasked(g, ph) == rephased(g, ph)

scramble_2d(g, ph) ==
    LET nan_inds == [yy \in DOMAIN g |-> [xx \in DOMAIN g[yy] |-> isnan(g[yy][xx])]]
        fnew0 == ndarray(rephased(g, ph))
    IN  [yy \in DOMAIN g |-> [xx \in DOMAIN g[yy] |->
            IF nan_inds[yy][xx] THEN NaN ELSE fnew0[yy][xx]]]

(***************************************************************************)
(* scramble_3d: one scramble_2d call, hence one fresh draw, per time slice *)
(***************************************************************************)
RECURSIVE scramble_3d_loop(_, _, _)
scramble_3d_loop(d, r, t) ==
    IF t = NRows(d)
    THEN [data |-> d, rng |-> r]
    ELSE scramble_3d_loop(
             ndarray([d EXCEPT ![t] = scramble_2d(d[t], RandPhase(r, NRows(d[t]), NCols(d[t])))]),
             Advance(r), t + 1)

scramble_3d(d, r) == scramble_3d_loop(d, r, 0)

(***************************************************************************)
(* Calls of the scrambler on its own                                       *)
(***************************************************************************)
Null == <<>>

Dims == {1, 2}
FieldVals == {NaN, Num(-1), Num(2)}
Grids(ny, nx) == [0..(ny - 1) -> [0..(nx - 1) -> FieldVals]]
Phases(ny, nx) == [0..(ny - 1) -> [0..(nx - 1) -> 0..3]]
\* 3D inputs are kept to at most two cells per time slice
Shapes3d == {s \in Dims \X Dims : s[1] * s[2] <= 2}

FireIdle ==
    /\ cfg = Null /\ inp = Null /\ climate = Null /\ shape = Null
    /\ x = Null /\ f = Null /\ f2 = Null /\ f3 = Null /\ ret = Null

TabIdle == df = Null /\ tab = Null

InitScramble2d ==
    /\ fn = "scramble_2d"
    /\ \E ny \in Dims, nx \in Dims :
         /\ img \in Grids(ny, nx)
         /\ \/ /\ phase \in {[given |-> TRUE, q |-> p] : p \in Phases(ny, nx)}
               /\ rng = [seed |-> 0, n |-> 0]
            \/ /\ phase = [given |-> FALSE, q |-> Null]
               /\ rng \in {[seed |-> s, n |-> 0] : s \in 0..MaxSeed}

InitScramble3d ==
    /\ fn = "scramble_3d"
    /\ \E s \in Shapes3d, nt \in 1..MaxNt : img \in [0..(nt - 1) -> Grids(s[1], s[2])]
    /\ phase = [given |-> FALSE, q |-> Null]
    /\ rng \in {[seed |-> s, n |-> 0] : s \in 0..MaxSeed}

InitScramble ==
    /\ pc = "start"
    /\ fnew = Null
    /\ InitScramble2d \/ InitScramble3d
    /\ FireIdle
    /\ TabIdle

Scramble2dCall ==
    /\ pc = "start" /\ fn = "scramble_2d"
    /\ IF phase.given
       THEN /\ fnew' = scramble_2d(img, phase.q)
            /\ rng' = rng
       ELSE /\ fnew' = scramble_2d(img, RandPhase(rng, NRows(img), NCols(img)))
            /\ rng' = Advance(rng)
    /\ pc' = "done"
    /\ UNCHANGED <<fn, img, phase, fireVars, tabVars>>

Scramble3dCall ==
    /\ pc = "start" /\ fn = "scramble_3d"
    /\ \E r \in {scramble_3d(img, rng)} :
           /\ fnew' = r.data
           /\ rng' = r.rng
    /\ pc' = "done"
    /\ UNCHANGED <<fn, img, phase, fireVars, tabVars>>

NextScramble == Scramble2dCall \/ Scramble3dCall

SpecScramble == InitScramble /\ [][NextScramble]_vars

(***************************************************************************)
(* Properties of the scrambler                                             *)
(***************************************************************************)
\* a returned field times its cell count, missing cells as 0, as complex integers
ScaledFill(g) ==
    LET N == NRows(g) * NCols(g)
    IN  [yy \in DOMAIN g |-> [xx \in DOMAIN g[yy] |->
            IF isnan(g[yy][xx]) THEN <<0, 0>>
            ELSE <<g[yy][xx].n * (N \div g[yy][xx].d), 0>>]]

SameMagnitude(a, b) ==
    LET N == NRows(a) * NCols(a)
        Fa == ndarray(fft2(ZeroFill(a)))
        Fb == ndarray(fft2(ScaledFill(b)))
    IN  \A u \in DOMAIN Fa : \A v \in DOMAIN Fa[u] :
            Fb[u][v][1] * Fb[u][v][1] + Fb[u][v][2] * Fb[u][v][2]
                = N * N * (Fa[u][v][1] * Fa[u][v][1] + Fa[u][v][2] * Fa[u][v][2])

SameMask(a, b) ==
    /\ DOMAIN a = DOMAIN b
    /\ \A yy \in DOMAIN a :
         /\ DOMAIN a[yy] = DOMAIN b[yy]
         /\ \A xx \in DOMAIN a[yy] : isnan(a[yy][xx]) <=> isnan(b[yy][xx])

\* C4: the Fourier magnitude of scramble_2d(f) equals that of f at every
\* frequency cell, missing cells counted as zero on both sides.
C4_PowerSpectrumPreserved ==
    (pc = "done" /\ fn = "scramble_2d") => SameMagnitude(img, fnew)

\* C5: the missing cells of the output of scramble_2d, and of every time
\* slice of the output of scramble_3d, are exactly the missing cells of the
\* input; an all-NaN input gives an all-NaN output of the same shape.
C5_MaskPreserved ==
    pc = "done" =>
        IF fn = "scramble_2d"
        THEN SameMask(img, fnew)
        ELSE /\ DOMAIN fnew = DOMAIN img
             /\ \A t \in DOMAIN img : SameMask(img[t], fnew[t])

C5_Witness ==
    /\ pc = "done" /\ fn = "scramble_3d"
    /\ NRows(img) = 2
    /\ \A xx \in DOMAIN img[0][0] : isnan(img[0][0][xx])
    /\ NCols(img[1]) = 2
    /\ isnan(img[1][0][0]) /\ ~isnan(img[1][0][1])
    /\ \A xx \in DOMAIN fnew[0][0] : isnan(fnew[0][0][xx])
    /\ isnan(fnew[1][0][0]) /\ fnew[1][0][1] = Num(1) /\ img[1][0][1] = Num(2)

(***************************************************************************)
(* drought and insects.  A DataFrame is a sequence of rows; a row keeps    *)
(* its index label under idx.                                              *)
(***************************************************************************)
duration_default == 10

\* `series is True`: the identity of a Series object with the singleton True
IsTrueObject(col) == FALSE

\* boolean indexing: the rows of frame whose entry in inds is true
RECURSIVE Select(_, _)
Select(frame, inds) ==
    IF frame = <<>> THEN <<>>
    ELSE LET rest == Select(Tail(frame), Tail(inds))
         IN  IF Head(inds) THEN <<Head(frame)>> \o rest ELSE rest

Column(frame, name) == [i \in 1..Len(frame) |-> frame[i][name]]

disturbance_inds(frame) ==
    [i \in 1..Len(frame) |->
        /\ GT(frame[i].condprop, Q(3, 10))
        /\ ~IsTrueObject(Column(frame, "disturb_human_1"))
        /\ ~IsTrueObject(Column(frame, "disturb_fire_1"))
        /\ ~IsTrueObject(Column(frame, "treatment_cutting_1"))]

\* the row test with `y <= 1` in place of `y < 1`
valid_inds_le(xs, ys) ==
    [i \in 1..Len(xs) |->
        /\ \A c \in 1..Len(xs[i]) : ~isnan(xs[i][c])
        /\ ~isnan(ys[i])
        /\ ~GT(ys[i], Num(1))]

valid_inds(xs, ys) ==
    [i \in 1..Len(xs) |->
        /\ \A c \in 1..Len(xs[i]) : ~isnan(xs[i][c])
        /\ ~isnan(ys[i])
        /\ LT(ys[i], Num(1))]

fit_vars(r) == <<r.ppt_sum_min_1, r.tavg_mean_max_1, r.age, r.age_squared, r.duration>>
eval_vars(r) == <<r.ppt_sum_min, r.tavg_mean_max, r.age, r.age_squared, r.duration>>
meta_cols(r) == [lat |-> r.lat, lon |-> r.lon, type_code |-> r.type_code]

drought_target(r) == Div(r.mort_1, r.balive_0)
insects_target(r) == Mul(r.fraction_insect_1, Div(r.mort_1, r.balive_0))

\* the shared body of drought and insects; they differ in the line that sets y
prepare_table(frame, eval_only, duration, caller) ==
    IF eval_only
    THEN LET d1 == [i \in 1..Len(frame) |->
                      [frame[i] EXCEPT !.age_squared = Mul(frame[i].age, frame[i].age),
                                       !.duration = Num(duration)]]
         IN  [x |-> [i \in 1..Len(d1) |-> eval_vars(d1[i])],
              y |-> <<>>,
              meta |-> [i \in 1..Len(d1) |-> meta_cols(d1[i])],
              index |-> [i \in 1..Len(d1) |-> d1[i].idx]]
    ELSE LET d1 == Select(frame, disturbance_inds(frame))
             d2 == [i \in 1..Len(d1) |->
                      [d1[i] EXCEPT !.age_squared = Mul(d1[i].age, d1[i].age),
                                    !.duration = Sub(d1[i].year_1, d1[i].year_0)]]
             ys == [i \in 1..Len(d2) |-> IF caller = "drought" THEN drought_target(d2[i])
                                          ELSE insects_target(d2[i])]
             xs == [i \in 1..Len(d2) |-> fit_vars(d2[i])]
             inds == valid_inds(xs, ys)
             kept == Select(d2, inds)
         IN  [x |-> Select(xs, inds),
              y |-> Select(ys, inds),
              meta |-> [i \in 1..Len(kept) |-> meta_cols(kept[i])],
              index |-> [i \in 1..Len(kept) |-> kept[i].idx]]

drought(frame, eval_only, duration) ==
    prepare_table(frame, eval_only, duration, "drought")

insects(frame, eval_only, duration) ==
    prepare_table(frame, eval_only, duration, "insects")

\* input rows
Flags == {<<FALSE, FALSE, FALSE>>, <<TRUE, FALSE, FALSE>>,
          <<FALSE, TRUE, FALSE>>, <<FALSE, FALSE, TRUE>>}
RowKinds == {"ok", "nan_ppt", "dead", "no_base"}

Row(i, cp, fl, kind) ==
    [idx |-> i,
     condprop |-> cp,
     disturb_human_1 |-> fl[1], disturb_fire_1 |-> fl[2], treatment_cutting_1 |-> fl[3],
     ppt_sum_min_1 |-> IF kind = "nan_ppt" THEN NaN ELSE Num(3),
     tavg_mean_max_1 |-> Num(20),
     ppt_sum_min |-> Num(3), tavg_mean_max |-> Num(20),
     age |-> Num(4), age_squared |-> NaN, duration |-> NaN,
     year_0 |-> Num(2000), year_1 |-> Num(2010),
     mort_1 |-> IF kind = "dead" THEN Num(5) ELSE Num(1),
     balive_0 |-> IF kind = "no_base" THEN Num(0) ELSE Num(5),
     fraction_insect_1 |-> Q(1, 2),
     lat |-> Num(40 + i), lon |-> Num(-120), type_code |-> Num(200 + i)]

RowsAt(i) == {Row(i, cp, fl, kind) : cp \in {Q(3, 10), Q(1, 2)}, fl \in Flags, kind \in RowKinds}

Frames == UNION {{fr \in [1..n -> UNION {RowsAt(i) : i \in 1..n}] :
                    \A i \in 1..n : fr[i].idx = i} : n \in 0..MaxRows}

ScrambleIdle == img = Null /\ phase = Null /\ fnew = Null

InitTab ==
    /\ pc = "start"
    /\ fn \in {"drought", "insects"}
    /\ rng = Null
    /\ df \in [frame : Frames, eval_only : BOOLEAN, duration : {duration_default}]
    /\ tab = Null
    /\ ScrambleIdle
    /\ FireIdle

DroughtCall ==
    /\ pc = "start" /\ fn = "drought"
    /\ tab' = drought(df.frame, df.eval_only, df.duration)
    /\ pc' = "done"
    /\ UNCHANGED <<fn, rng, df, scrVars, fireVars>>

InsectsCall ==
    /\ pc = "start" /\ fn = "insects"
    /\ tab' = insects(df.frame, df.eval_only, df.duration)
    /\ pc' = "done"
    /\ UNCHANGED <<fn, rng, df, scrVars, fireVars>>

NextTab == DroughtCall \/ InsectsCall

SpecTab == InitTab /\ [][NextTab]_vars

(***************************************************************************)
(* Properties of drought and insects                                       *)
(***************************************************************************)
FitDone == pc = "done" /\ fn \in {"drought", "insects"} /\ ~df.eval_only

\* the input row a returned row comes from
Origin(i) == df.frame[tab.index[i]]

\* the covariates and the target of an input row, from the documented formulas
ExpectedX(r) ==
    <<r.ppt_sum_min_1, r.tavg_mean_max_1, r.age, Mul(r.age, r.age), Sub(r.year_1, r.year_0)>>

ExpectedY(r) ==
    IF fn = "drought" THEN Div(r.mort_1, r.balive_0)
    ELSE Mul(r.fraction_insect_1, Div(r.mort_1, r.balive_0))

Reapplied ==
    LET kept == [i \in 1..Len(tab.index) |-> Origin(i)]
    IN  IF fn = "drought" THEN drought(kept, FALSE, df.duration)
        ELSE insects(kept, FALSE, df.duration)

\* C6: in fit mode every returned row comes from an input row with
\* condition proportion > 0.3 and none of the three disturbance flags set.
C6_NoDisturbedRows ==
    FitDone =>
        \A i \in 1..Len(tab.index) :
            /\ GT(Origin(i).condprop, Q(3, 10))
            /\ ~Origin(i).disturb_human_1
            /\ ~Origin(i).disturb_fire_1
            /\ ~Origin(i).treatment_cutting_1

\* C7: in fit mode X, y and metadata have the same number of rows, row i of
\* each comes from the same input row, in the input's order; every returned
\* row has its five covariates present and a present target below 1; and
\* filtering the retained rows again drops none of them.
C7_AlignedValidIdempotent ==
    FitDone =>
        /\ Len(tab.x) = Len(tab.y) /\ Len(tab.y) = Len(tab.meta)
        /\ Len(tab.meta) = Len(tab.index)
        /\ \A i \in 1..Len(tab.index) :
             /\ tab.index[i] \in 1..Len(df.frame)
             /\ i > 1 => tab.index[i - 1] < tab.index[i]
             /\ tab.x[i] = ExpectedX(Origin(i))
             /\ tab.y[i] = ExpectedY(Origin(i))
             /\ tab.meta[i] = meta_cols(Origin(i))
             /\ Len(tab.x[i]) = 5
             /\ \A c \in 1..5 : ~isnan(tab.x[i][c])
             /\ ~isnan(tab.y[i]) /\ LT(tab.y[i], Num(1))
        /\ Reapplied.x = tab.x /\ Reapplied.y = tab.y /\ Reapplied.meta = tab.meta

C7_Witness ==
    /\ FitDone /\ fn = "insects"
    /\ Len(df.frame) = 2
    /\ isnan(df.frame[1].ppt_sum_min_1)
    /\ df.frame[2].mort_1 = df.frame[2].balive_0
    /\ tab.index = <<2>>
    /\ tab.y = <<Q(1, 2)>>
    /\ tab.x = <<(<<Num(3), Num(20), Num(4), Num(16), Num(10)>>)>>

(***************************************************************************)
(* Arrays of the fire pipeline.  A cube is a function over 0..T-1 of       *)
(* (Y,X) grids; a dataset holds the time labels (months counted from       *)
(* January of year 0) and one cube per variable.                           *)
(***************************************************************************)
rolling_window == 12
year_tile == 12
months_per_year == 12

Len0(a) == Cardinality(DOMAIN a)

\* ndarray.flatten of a (T,Y,X) cube: row-major (t, y, x) order
Flatten(cube) ==
    LET ny == NRows(cube[0])
        nx == NCols(cube[0])
        c == ndarray(cube)
    IN  ndarray([i \in 1..(Len0(c) * ny * nx) |->
            c[(i - 1) \div (ny * nx)][((i - 1) % (ny * nx)) \div nx][(i - 1) % nx]])

\* np.tile(a, [reps, 1, 1]) of a (Y,X) grid
Tile(a, reps) == [t \in 0..(reps - 1) |-> a]

\* np.tile(s, [ny, nx]) of a scalar
TileScalar(s, ny, nx) == [yy \in 0..(ny - 1) |-> [xx \in 0..(nx - 1) |-> s]]

\* np.asarray([c1, c2, ...]).T: rows from equally long columns
Transpose(cols) ==
    LET cs == ndarray(cols)
    IN  ndarray([i \in 1..Len(cs[1]) |-> [c \in 1..Len(cs) |-> cs[c][i]]])

\* the cubes of a list of per-item cubes, one after the other
RECURSIVE ConcatCubes(_)
ConcatCubes(cubes) ==
    IF cubes = <<>> THEN <<>>
    ELSE LET c == Head(cubes)
         IN  [i \in 1..Len0(c) |-> c[i - 1]] \o ConcatCubes(Tail(cubes))

\* np.asarray([cube, cube, ...]).flatten()
FlattenAll(cubes) ==
    LET s == ndarray(ConcatCubes(cubes))
    IN  IF s = <<>> THEN <<>> ELSE Flatten([t \in 0..(Len(s) - 1) |-> s[t + 1]])

\* Dataset.sel(time=slice(lo, hi)): the time steps whose label lies in lo..hi
Sel(ds, lo, hi) ==
    LET keep == {t \in DOMAIN ds.time : lo <= ds.time[t] /\ ds.time[t] <= hi}
        first == CHOOSE t \in keep : \A u \in keep : t <= u
        n == Cardinality(keep)
    IN  ndarray([time |-> [t \in 0..(n - 1) |-> ds.time[first + t]],
                 vars |-> ds.vars,
                 data |-> [v \in DOMAIN ds.data |->
                             [t \in 0..(n - 1) |-> ds.data[v][first + t]]]])

RECURSIVE SumVals(_, _, _)
SumVals(g, lo, hi) == IF lo > hi THEN Num(0) ELSE Add(g[lo], SumVals(g, lo + 1, hi))

MaxOf(S) == CHOOSE v \in S : \A w \in S : ~LT(v, w)

\* .rolling(dim={'time': 12}, min_periods=12, center=False).max() / .sum():
\* missing until 12 valid steps end at t
Rolling(cube, agg) ==
    LET ny == NRows(cube[0])
        nx == NCols(cube[0])
        cell(t, yy, xx) ==
            LET w == [u \in (t - rolling_window + 1)..t |-> cube[u][yy][xx]]
            IN  IF \E u \in DOMAIN w : isnan(w[u]) THEN NaN
                ELSE IF agg = "max" THEN MaxOf({w[u] : u \in DOMAIN w})
                ELSE SumVals(w, t - rolling_window + 1, t)
    IN  ndarray([t \in DOMAIN cube |-> [yy \in 0..(ny - 1) |-> [xx \in 0..(nx - 1) |->
            IF t + 1 < rolling_window THEN NaN ELSE cell(t, yy, xx)]]])

\* .mean() over y and x, skipping missing cells; missing when all are
SpatialMean(g) ==
    LET cells == {c \in (DOMAIN g) \X (DOMAIN g[0]) : ~isnan(g[c[1]][c[2]])}
        flat == [i \in 1..(NRows(g) * NCols(g)) |->
                    LET v == g[(i - 1) \div NCols(g)][(i - 1) % NCols(g)]
                    IN  IF isnan(v) THEN Num(0) ELSE v]
    IN  IF cells = {} THEN NaN
        ELSE Div(SumVals(flat, 1, Len(flat)), Num(Cardinality(cells)))

YearOf(label) == label \div months_per_year

RECURSIVE Sorted(_)
Sorted(S) ==
    IF S = {} THEN <<>>
    ELSE LET m == CHOOSE a \in S : \A b \in S : a <= b
         IN  <<m>> \o Sorted(S \ {m})

\* .groupby('time.year').max() / .sum(): one (Y,X) grid per calendar year
\* present on the time axis, in ascending order of the year
GroupByYear(time, cube, agg) ==
    LET years == Sorted({YearOf(time[t]) : t \in DOMAIN time})
        ny == NRows(cube[0])
        nx == NCols(cube[0])
        steps(yr) == Sorted({t \in DOMAIN time : YearOf(time[t]) = yr})
        cell(yr, yy, xx) ==
            LET s == steps(yr)
                w == [k \in 1..Len(s) |-> cube[s[k]][yy][xx]]
            IN  IF agg = "max" THEN MaxOf({w[k] : k \in DOMAIN w})
                ELSE SumVals(w, 1, Len(w))
    IN  ndarray([k \in 1..Len(years) |-> [yy \in 0..(ny - 1) |-> [xx \in 0..(nx - 1) |->
            cell(years[k], yy, xx)]]])

\* smooth(): the Gaussian-blurred grid.  The blurred numbers are not computed;
\* each cell stands for itself.
smooth(a, gaussian_stddev) ==
    [yy \in DOMAIN a |-> [xx \in DOMAIN a[yy] |->
        [k |-> "blur", n |-> a[yy][xx].n, d |-> gaussian_stddev]]]

(***************************************************************************)
(* Inputs of fire                                                          *)
(***************************************************************************)
\* the number of land-type rasters in nftd
MaxL == 2

ClimVal(var, label, yy, xx) ==
    CASE var = "tmean" -> Num((label % 5) + 2 * YearOf(label) + yy + 2 * xx)
      [] var = "ppt" -> Num(1 + (label % 3) + yy)
      [] OTHER -> Num(label + xx)

NftdVal(l, yy, xx) ==
    IF l = 2 /\ yy = 0 /\ xx = 0 THEN NaN ELSE Num((l + yy + 2 * xx) % 3)

MtbsVal(label, yy, xx) == Num((label + yy + xx) % 2)

full_climate(i) ==
    ndarray(
    [time |-> [t \in 0..(i.nt - 1) |-> i.start + t],
     vars |-> i.vars,
     data |-> [v \in {i.vars[k] : k \in DOMAIN i.vars} |->
                 [t \in 0..(i.nt - 1) |->
                     [yy \in 0..(i.shape[1] - 1) |-> [xx \in 0..(i.shape[2] - 1) |->
                         ClimVal(v, i.start + t, yy, xx)]]]]])

nftd(i) ==
    [l \in 1..i.nl |->
        [yy \in 0..(i.shape[1] - 1) |-> [xx \in 0..(i.shape[2] - 1) |-> NftdVal(l, yy, xx)]]]

\* the target dataset: over the full time axis, or cut by the caller to period
mtbs(i, period) ==
    LET full == [t \in 0..(i.nt - 1) |-> i.start + t]
        keep == {t \in DOMAIN full :
                    i.mtbs_cut => (period.lo <= full[t] /\ full[t] <= period.hi)}
        first == CHOOSE t \in keep : \A u \in keep : t <= u
        time == [t \in 0..(Cardinality(keep) - 1) |-> full[first + t]]
    IN  [time |-> time,
         monthly |-> [t \in DOMAIN time |->
                        [yy \in 0..(i.shape[1] - 1) |-> [xx \in 0..(i.shape[2] - 1) |->
                            MtbsVal(time[t], yy, xx)]]]]

(***************************************************************************)
(* The feature blocks of fire                                              *)
(***************************************************************************)
\* line 73: scramble_3d of every variable in turn, each flattened
RECURSIVE scrambled_climate_columns(_, _, _)
scrambled_climate_columns(ds, k, r) ==
    IF k > Len(ds.vars) THEN [cols |-> <<>>, rng |-> r]
    ELSE LET s == ndarray(scramble_3d(ds.data[ds.vars[k]], r))
             rest == scrambled_climate_columns(ds, k + 1, s.rng)
         IN  [cols |-> <<Flatten(s.data)>> \o rest.cols, rng |-> rest.rng]

\* lines 73 and 76: the climate block x
climate_block(ds, scramble, r) ==
    IF scramble
    THEN LET s == scrambled_climate_columns(ds, 1, r)
         IN  [rows |-> Transpose(s.cols), rng |-> s.rng]
    ELSE [rows |-> Transpose([k \in 1..Len(ds.vars) |-> Flatten(ds.data[ds.vars[k]])]),
          rng |-> r]

\* line 74: every raster scrambled once, then tiled over the T time steps
RECURSIVE scrambled_land_columns(_, _, _, _)
scrambled_land_columns(rasters, T, k, r) ==
    IF k > Len(rasters) THEN [cols |-> <<>>, rng |-> r]
    ELSE LET a == rasters[k]
             s == ndarray(scramble_2d(a, RandPhase(r, NRows(a), NCols(a))))
             rest == scrambled_land_columns(rasters, T, k + 1, Advance(r))
         IN  [cols |-> <<Flatten(Tile(s, T))>> \o rest.cols, rng |-> rest.rng]

\* the land block with the tiled raster scrambled per time step
RECURSIVE land_columns_per_step(_, _, _, _)
land_columns_per_step(rasters, T, k, r) ==
    IF k > Len(rasters) THEN [cols |-> <<>>, rng |-> r]
    ELSE LET s == ndarray(scramble_3d(Tile(rasters[k], T), r))
             rest == land_columns_per_step(rasters, T, k + 1, s.rng)
         IN  [cols |-> <<Flatten(s.data)>> \o rest.cols, rng |-> rest.rng]

land_block_per_step(rasters, T, scramble, r) ==
    IF scramble
    THEN LET s == land_columns_per_step(rasters, T, 1, r)
         IN  [rows |-> Transpose(s.cols), rng |-> s.rng]
    ELSE [rows |-> Transpose([k \in 1..Len(rasters) |-> Flatten(Tile(rasters[k], T))]),
          rng |-> r]

\* lines 74 and 77: the land-type block f
land_block(rasters, T, scramble, r) ==
    IF scramble
    THEN LET s == scrambled_land_columns(rasters, T, 1, r)
         IN  [rows |-> Transpose(s.cols), rng |-> s.rng]
    ELSE [rows |-> Transpose([k \in 1..Len(rasters) |-> Flatten(Tile(rasters[k], T))]),
          rng |-> r]

\* lines 87-110: rolling aggregate of the selected series, selected again,
\* spatial mean per time step, tiled over (Y,X)
global_rolling_column(ds, var, agg, period, ny, nx) ==
    LET rolled == [ds EXCEPT !.data = [v \in {var} |-> Rolling(ds.data[v], agg)]]
        picked == ndarray(Sel(rolled, period.lo, period.hi).data[var])
    IN  Flatten([t \in DOMAIN picked |-> TileScalar(SpatialMean(picked[t]), ny, nx)])

\* lines 115-130: one scalar per calendar year, tiled over 12 steps and (Y,X)
global_yearly_column(ds, var, agg, ny, nx) ==
    LET groups == GroupByYear(ds.time, ds.data[var], agg)
    IN  FlattenAll([k \in 1..Len(groups) |->
            Tile(TileScalar(SpatialMean(groups[k]), ny, nx), year_tile)])

global_trend(ds, period, ny, nx) ==
    IF period.given
    THEN Transpose(<<global_rolling_column(ds, "tmean", "max", period, ny, nx),
                     global_rolling_column(ds, "ppt", "sum", period, ny, nx)>>)
    ELSE Transpose(<<global_yearly_column(ds, "tmean", "max", ny, nx),
                     global_yearly_column(ds, "ppt", "sum", ny, nx)>>)

\* lines 135-145
local_rolling_column(ds, var, agg) == Flatten(Rolling(ds.data[var], agg))

\* lines 150-169 and 173-188
local_yearly_column(ds, var, agg, kernel) ==
    LET groups == GroupByYear(ds.time, ds.data[var], agg)
    IN  FlattenAll([k \in 1..Len(groups) |->
            Tile(IF kernel.given THEN smooth(groups[k], kernel.v) ELSE groups[k], year_tile)])

local_trend(ds, period, kernel) ==
    IF period.given
    THEN Transpose(<<local_rolling_column(ds, "tmean", "max"),
                     local_rolling_column(ds, "ppt", "sum")>>)
    ELSE Transpose(<<local_yearly_column(ds, "tmean", "max", kernel),
                     local_yearly_column(ds, "ppt", "sum", kernel)>>)

\* `if gaussian_kernel_size:` the truth value of the argument
Truthy(kernel) == kernel.given /\ kernel.v # 0

\* np.concatenate([a, b], axis=1) of two row lists of equal length
HStack(a, b) == ndarray([i \in 1..Len(a) |-> a[i] \o b[i]])

(***************************************************************************)
(* fire, step by step                                                      *)
(***************************************************************************)
NoPeriod == [given |-> FALSE, lo |-> 0, hi |-> 0]
Unbound == [bound |-> FALSE, rows |-> <<>>]

\* time axes <<first label, number of steps>>: a single step, a full calendar
\* year, a year and a month, and twelve months from July to June
TimeAxes == {<<0, 1>>, <<0, 12>>, <<0, 13>>, <<6, 12>>}
WindowStarts == {0, 11, 12}
\* the climate variables, in data_vars order, and the (Y,X) extent of the grid
Layouts == {[vars |-> <<"tmean", "ppt">>, shape |-> <<1, 2>>],
            [vars |-> <<"ppt", "cwd", "tmean">>, shape |-> <<2, 1>>]}
Kernels == {[given |-> FALSE, v |-> 0], [given |-> TRUE, v |-> 0], [given |-> TRUE, v |-> 1]}

\* a rolling_period: the time steps from one of WindowStarts to the last one
Periods(start, nt) ==
    {[given |-> TRUE, lo |-> start + w, hi |-> start + nt - 1] : w \in {v \in WindowStarts : v < nt}}

InitFire ==
    /\ pc = "start"
    /\ fn = "fire"
    /\ \E ax \in TimeAxes, g \in Layouts, l \in 1..MaxL, cut \in BOOLEAN :
         inp = [start |-> ax[1], nt |-> ax[2], vars |-> g.vars, shape |-> g.shape,
                nl |-> l, mtbs_cut |-> cut]
    /\ cfg \in [scramble : BOOLEAN, add_local_climate_trends : BOOLEAN, eval_only : BOOLEAN,
                rolling_period : {NoPeriod} \cup Periods(inp.start, inp.nt),
                gaussian_kernel_size : Kernels]
    \* the target is the full dataset, or the caller has cut it to rolling_period
    /\ inp.mtbs_cut => (cfg.rolling_period.given /\ ~cfg.eval_only)
    \* smooth() is not called with a standard deviation of 0
    /\ ~(cfg.gaussian_kernel_size = [given |-> TRUE, v |-> 0]
         /\ cfg.add_local_climate_trends /\ ~cfg.rolling_period.given)
    /\ rng \in {[seed |-> s, n |-> 0] : s \in (IF cfg.scramble THEN 0..MaxSeed ELSE {0})}
    /\ climate = Null /\ shape = Null
    /\ x = Null /\ f = Null /\ f2 = Null /\ f3 = Unbound /\ ret = Null
    /\ ScrambleIdle
    /\ TabIdle

\* lines 66-77: the time window, then the blocks x and f
FireBuild ==
    /\ pc = "start" /\ fn = "fire"
    /\ \E sel \in {IF cfg.rolling_period.given
                   THEN Sel(full_climate(inp), cfg.rolling_period.lo, cfg.rolling_period.hi)
                   ELSE full_climate(inp)} :
       \E xb \in {climate_block(sel, cfg.scramble, rng)} :
       \E fb \in {land_block(nftd(inp), Len0(sel.time), cfg.scramble, xb.rng)} :
           /\ climate' = sel
           /\ shape' = <<Len0(sel.time), inp.shape[1], inp.shape[2]>>
           /\ x' = xb.rows
           /\ f' = fb.rows
           /\ rng' = fb.rng
    /\ pc' = "trends"
    /\ UNCHANGED <<fn, cfg, inp, f2, f3, ret, scrVars, tabVars>>

\* lines 79-188: the global trend block f2 and, when asked for, the local one f3
FireTrends ==
    /\ pc = "trends"
    /\ f2' = global_trend(climate, cfg.rolling_period, shape[2], shape[3])
    /\ f3' = IF cfg.add_local_climate_trends
             THEN [bound |-> TRUE,
                   rows |-> local_trend(climate, cfg.rolling_period, cfg.gaussian_kernel_size)]
             ELSE f3
    /\ pc' = "concat"
    /\ UNCHANGED <<fn, rng, cfg, inp, climate, shape, x, f, ret, scrVars, tabVars>>

\* lines 189-199: np.concatenate raises ValueError when the row counts differ
FireConcat ==
    /\ pc = "concat"
    /\ LET withF2 == ~Truthy(cfg.gaussian_kernel_size)
           withF3 == cfg.add_local_climate_trends /\ Truthy(cfg.gaussian_kernel_size)
           x1 == IF withF2 THEN HStack(HStack(x, f), f2) ELSE HStack(x, f)
           x2 == IF withF3 THEN HStack(x1, f3.rows) ELSE x1
       IN  IF \/ Len(f) # Len(x)
              \/ withF2 /\ Len(f2) # Len(x)
              \/ withF3 /\ Len(f3.rows) # Len(x)
           THEN /\ ret' = [kind |-> "ValueError"]
                /\ pc' = "raised"
                /\ x' = x
           ELSE /\ x' = x2
                /\ pc' = "return"
                /\ ret' = ret
    /\ UNCHANGED <<fn, rng, cfg, inp, climate, shape, f, f2, f3, scrVars, tabVars>>

\* lines 201-206: `return x`, or `return x, y, f3`, where an f3 that was never
\* assigned raises UnboundLocalError
FireReturn ==
    /\ pc = "return"
    /\ IF cfg.eval_only
       THEN /\ ret' = [kind |-> "x", x |-> x]
            /\ pc' = "done"
       ELSE LET y == Flatten(mtbs(inp, cfg.rolling_period).monthly)
            IN  IF f3.bound
                THEN /\ ret' = [kind |-> "tuple", x |-> x, y |-> y, f3 |-> f3.rows]
                     /\ pc' = "done"
                ELSE /\ ret' = [kind |-> "UnboundLocalError"]
                     /\ pc' = "raised"
    /\ UNCHANGED <<fn, rng, cfg, inp, climate, shape, x, f, f2, f3, scrVars, tabVars>>

NextFire == FireBuild \/ FireTrends \/ FireConcat \/ FireReturn

SpecFire == InitFire /\ [][NextFire]_vars

(***************************************************************************)
(* Properties of fire                                                      *)
(***************************************************************************)
\* the row of the cell (t, yy, xx) in a block flattened in (t, y, x) order
RowOf(t, yy, xx) == t * shape[2] * shape[3] + yy * shape[3] + xx + 1

Cells == (0..(shape[1] - 1)) \X (0..(shape[2] - 1)) \X (0..(shape[3] - 1))

\* the (label, y, x) cell of every element of the flattened cube over `time`
CellsOver(time) ==
    Flatten([t \in DOMAIN time |->
        [yy \in 0..(inp.shape[1] - 1) |-> [xx \in 0..(inp.shape[2] - 1) |->
            <<time[t], yy, xx>>]]])

Returned == fn = "fire" /\ pc = "done"

\* C1: when fire returns a target, x and y have the same length and row i of
\* x and element i of y belong to the same (t,y,x) cell; with a rolling_period
\* that selects part of the time steps, y covers exactly the selected steps.
C1_TargetAligned ==
    (Returned /\ ret.kind = "tuple") =>
        /\ Len(ret.y) = Len(ret.x)
        /\ CellsOver(mtbs(inp, cfg.rolling_period).time) = CellsOver(climate.time)

\* C2: the blocks x, f, f2 and, when built, f3 all have exactly T*Y*X rows,
\* for every time axis, so that the concatenation is well-formed.
C2_BlocksHaveTYXRows ==
    (fn = "fire" /\ pc = "concat") =>
        LET rows == shape[1] * shape[2] * shape[3]
        IN  /\ Len(x) = rows
            /\ Len(f) = rows
            /\ Len(f2) = rows
            /\ f3.bound => Len(f3.rows) = rows

\* the climate block as first built, from the generator state before any draw
ClimateRows == climate_block(climate, cfg.scramble, [rng EXCEPT !.n = 0]).rows

\* C3: the returned design matrix is [climate (V), land type (L), f2 (2),
\* f3 (2)] in this order, with f2 present exactly when gaussian_kernel_size is
\* None and f3 exactly when add_local_climate_trends is set and a kernel size
\* was given.
C3_ColumnLayout ==
    (Returned /\ ret.kind \in {"x", "tuple"}) =>
        LET V == Len(inp.vars)
            L == inp.nl
            hasF2 == ~cfg.gaussian_kernel_size.given
            hasF3 == cfg.add_local_climate_trends /\ cfg.gaussian_kernel_size.given
            w2 == IF hasF2 THEN 2 ELSE 0
            w3 == IF hasF3 THEN 2 ELSE 0
        IN  \A i \in DOMAIN ret.x :
                /\ Len(ret.x[i]) = V + L + w2 + w3
                /\ SubSeq(ret.x[i], 1, V) = ClimateRows[i]
                /\ SubSeq(ret.x[i], V + 1, V + L) = f[i]
                /\ hasF2 => SubSeq(ret.x[i], V + L + 1, V + L + 2) = f2[i]
                /\ hasF3 => SubSeq(ret.x[i], V + L + w2 + 1, V + L + w2 + 2) = f3.rows[i]

\* the position on the full time axis of step t of the selected window
FullIndex(t) == climate.time[t] - inp.start

\* the spatial mean of the 12-step aggregate ending at step u of the full series
RollingOverFull(var, agg, u) ==
    SpatialMean(Rolling(full_climate(inp).data[var], agg)[u])

\* C8: in rolling mode, for every step t of the window with at least 11
\* preceding steps in the full series, the global-trend value in the rows of
\* t is the spatial mean of the aggregate over the 12 steps that end at t in
\* the full series, and is not missing.
C8_RollingOverFullSeries ==
    (fn = "fire" /\ pc = "concat" /\ cfg.rolling_period.given) =>
        \A c \in Cells :
            FullIndex(c[1]) >= rolling_window - 1 =>
                /\ RowOf(c[1], c[2], c[3]) \in DOMAIN f2
                /\ f2[RowOf(c[1], c[2], c[3])] =
                      <<RollingOverFull("tmean", "max", FullIndex(c[1])),
                        RollingOverFull("ppt", "sum", FullIndex(c[1]))>>
                /\ \A k \in 1..2 : ~isnan(f2[RowOf(c[1], c[2], c[3])][k])

\* the steps of the selected series in the calendar year of step t
YearSteps(t) == {u \in DOMAIN climate.time : YearOf(climate.time[u]) = YearOf(climate.time[t])}

\* the spatial mean of the within-year aggregate of the year of step t
YearlyMean(var, agg, t) ==
    LET cube == climate.data[var]
        cell(yy, xx) ==
            IF agg = "max" THEN MaxOf({cube[u][yy][xx] : u \in YearSteps(t)})
            ELSE LET s == Sorted(YearSteps(t))
                 IN  SumVals([k \in 1..Len(s) |-> cube[s[k]][yy][xx]], 1, Len(s))
    IN  SpatialMean([yy \in 0..(shape[2] - 1) |-> [xx \in 0..(shape[3] - 1) |-> cell(yy, xx)]])

\* C9: in yearly mode the global-trend columns of the row of (t,y,x) hold the
\* spatial mean of the within-year maximum of tmean and of the within-year
\* sum of ppt of the calendar year that contains t, for every monthly axis.
C9_YearlyTrendOfOwnYear ==
    (fn = "fire" /\ ~cfg.rolling_period.given /\ ~Truthy(cfg.gaussian_kernel_size)) =>
        LET V == Len(inp.vars)
            L == inp.nl
            want(t) == <<YearlyMean("tmean", "max", t), YearlyMean("ppt", "sum", t)>>
        IN  /\ pc = "concat" =>
                \A c \in Cells :
                    /\ RowOf(c[1], c[2], c[3]) \in DOMAIN f2
                    /\ f2[RowOf(c[1], c[2], c[3])] = want(c[1])
            /\ pc \in {"return", "done"} =>
                \A c \in Cells :
                    /\ RowOf(c[1], c[2], c[3]) \in DOMAIN x
                    /\ SubSeq(x[RowOf(c[1], c[2], c[3])], V + L + 1, V + L + 2) = want(c[1])

\* the generator state at draw number n of this run
DrawAt(n) == [rng EXCEPT !.n = n]

\* C10: with scramble set, every land-type raster is scrambled once, with one
\* draw, and tiled, so the T time slices of its column are identical; every
\* climate variable is scrambled by scramble_3d with one fresh draw per time
\* step, no draw shared between time steps or variables.
C10_ScrambleDraws ==
    (fn = "fire" /\ pc = "trends" /\ cfg.scramble) =>
        LET T == shape[1]
            V == Len(inp.vars)
            L == inp.nl
            land == nftd(inp)
        IN  /\ rng.n = V * T + L
            /\ \A c \in Cells :
                 /\ \A k \in 1..V :
                      x[RowOf(c[1], c[2], c[3])][k] =
                          scramble_2d(climate.data[inp.vars[k]][c[1]],
                                      RandPhase(DrawAt((k - 1) * T + c[1]),
                                                shape[2], shape[3]))[c[2]][c[3]]
                 /\ \A l \in 1..L :
                      /\ f[RowOf(c[1], c[2], c[3])][l] =
                             scramble_2d(land[l],
                                         RandPhase(DrawAt(V * T + l - 1),
                                                   shape[2], shape[3]))[c[2]][c[3]]
                      /\ f[RowOf(c[1], c[2], c[3])][l] = f[RowOf(0, c[2], c[3])][l]

C10_Witness ==
    /\ fn = "fire" /\ pc = "trends" /\ cfg.scramble
    /\ shape = <<12, 2, 1>>
    /\ inp.nl = 2
    /\ rng = [seed |-> 1, n |-> 38]
    /\ f # land_block(nftd(inp), 12, FALSE, rng).rows
    /\ \E t \in 1..11 : \E k \in 1..3 :
          x[RowOf(t, 0, 0)][k] # climate.data[inp.vars[k]][t][0][0]

====
